---------------------------- MODULE Spec2Model ----------------------------
(***************************************************************************)
(* Orthogonal dual Scotch-yoke animation (fourbar_mechanism.py).           *)
(*                                                                         *)
(* The script fixes the motion parameters, precomputes a time grid with    *)
(* numpy.linspace, and hands two callbacks (init, update) to matplotlib's  *)
(* FuncAnimation, which calls init, then update(0), ..., update(N-1), and, *)
(* since repeat=True, calls init again and starts over.                    *)
(*                                                                         *)
(* Numbers.  Floating-point values are modelled in fixed point with Scale  *)
(* units per 1.0; times of the grid are kept as exact fractions <<n, d>>.  *)
(* cos and sin are computed by range reduction and Bhaskara's rational     *)
(* approximation, in the same fixed point.                                 *)
(***************************************************************************)
EXTENDS Integers, Sequences, FiniteSets, TLC

\* ------------------------------------------------------------------ bounds
\* Configurations explored by Spec: T in 1..MaxT, fps in 1..MaxFps,
\* trail_max in 0..MaxTrail, at most MaxCalls frame callbacks.
MaxT == 2
MaxFps == 3
MaxTrail == 7
MaxCalls == 14
\* Frame callbacks explored by SpecProgram (the script's own constants).
ProgMaxCalls == 8450
\* Frame callbacks explored by SpecLong (N = 10000 frames).
LongMaxCalls == 10020

\* ------------------------------------------------------------- fixed point
Scale == 1000
Pi == 3142
HalfPi == Pi \div 2
TwoPi == 2 * Pi

\* np.sqrt on a fixed-point argument: the integer square root of v * Scale.
sqrt(v) == CHOOSE r \in 0..(3 * Scale) :
              r * r <= v * Scale /\ (r + 1) * (r + 1) > v * Scale

\* np.sin: sign and half-period by range reduction, then
\* sin h ~ 16 h (pi - h) / (5 pi^2 - 4 h (pi - h)) on [0, pi].
np_sin(a) == LET r == a % TwoPi
                 h == IF r > Pi THEN r - Pi ELSE r
                 p == h * (Pi - h)
                 v == (16 * p) \div ((5 * Pi * Pi - 4 * p) \div Scale)
             IN IF r > Pi THEN 0 - v ELSE v

\* np.cos: cos a = sin (a + pi/2).
np_cos(a) == np_sin(a + HalfPi)

\* omega * t + ph for a fixed-point omega and ph and a time t = <<n, d>>.
Angle(omega, t, ph) ==
    omega * (t[1] \div t[2]) + (omega * (t[1] % t[2])) \div t[2] + ph

\* a * b for two fixed-point numbers.
Mul(a, b) == (a * b) \div Scale

\* np.linspace(start, stop, num) for integers start, stop (endpoint included):
\* sample i (from 0) is start + i * (stop - start) / (num - 1).
linspace(start, stop, num) ==
    [i \in 1..num |->
        IF num = 1 THEN <<start, 1>>
        ELSE <<start * (num - 1) + (i - 1) * (stop - start), num - 1>>]

VARIABLES
    Rx, Ry, omega_x, phi_x, phi, omega_y, phi_y,   \* motion parameters
    T, fps, N,                                     \* animation timing
    trail_max, trail_x, trail_y,                   \* traced path
    t_values,                                      \* time grid
    link1, link2, slider_x_marker, slider_y_marker,
    trace_point, trail_line,                       \* artists: <<xdata, ydata>>
    started, frame_seq,                            \* FuncAnimation's position
    calls                                          \* update calls so far

params == <<Rx, Ry, omega_x, phi_x, phi, omega_y, phi_y, T, fps, N,
            trail_max, t_values>>
trail == <<trail_x, trail_y>>
artists == <<link1, link2, slider_x_marker, slider_y_marker,
             trace_point, trail_line>>
vars == <<params, trail, artists, started, frame_seq, calls>>

\* ------------------------------------------------------ kinematics helpers
crank_pin_x(t) ==
    <<Mul(Rx, np_cos(Angle(omega_x, t, phi_x))),
      Mul(Rx, np_sin(Angle(omega_x, t, phi_x)))>>

crank_pin_y(t) ==
    <<Mul(Ry, np_cos(Angle(omega_y, t, phi_y))),
      Mul(Ry, np_sin(Angle(omega_y, t, phi_y)))>>

\* Variant: the y coordinate taken from the cosine, as in the crank pins' x.
sliders_intersection_swapped(t) ==
    LET x == Mul(Rx, np_cos(Angle(omega_x, t, phi_x)))
        y == Mul(Ry, np_cos(Angle(omega_y, t, phi_y)))
    IN <<x, y>>

\* Variant: the result depends on how many points the trail holds.
sliders_intersection_drift(t) ==
    LET x == Mul(Rx, np_cos(Angle(omega_x, t, phi_x) + Len(trail_x)))
        y == Mul(Ry, np_sin(Angle(omega_y, t, phi_y) + Len(trail_y)))
    IN <<x, y>>

sliders_intersection(t) ==
    LET x == Mul(Rx, np_cos(Angle(omega_x, t, phi_x)))
        y == Mul(Ry, np_sin(Angle(omega_y, t, phi_y)))
    IN <<x, y>>

\* ----------------------------------------------------------- trail buffer
\* Variant: list.insert(0, e).
append_front(s, e) == <<e>> \o s

\* Variant: the point is appended twice.
append_twice(s, e) == Append(Append(s, e), e)

\* list.append
append(s, e) == Append(s, e)

\* del s[:n]
DelFront(s, n) == SubSeq(s, n + 1, Len(s))

\* Variant: del s[trail_max:], which keeps the oldest points.
EvictBack(s) == IF Len(s) > trail_max THEN SubSeq(s, 1, trail_max) ELSE s

\* Variant: s = s[-trail_max:], which keeps everything when trail_max = 0.
EvictSlice(s) ==
    IF trail_max = 0 \/ Len(s) <= trail_max THEN s
    ELSE SubSeq(s, Len(s) - trail_max + 1, Len(s))

\* if len(s) > trail_max: del s[:len(s)-trail_max]
Evict(s) == IF Len(s) > trail_max THEN DelFront(s, Len(s) - trail_max) ELSE s

\* Line2D.set_data(xs, ys)
set_data(xs, ys) == <<xs, ys>>

\* --------------------------------------------------------------- callbacks
\* Variant: init also empties the trail.
init_clears_trail ==
    /\ link1' = set_data(<<>>, <<>>)
    /\ link2' = set_data(<<>>, <<>>)
    /\ slider_x_marker' = set_data(<<>>, <<>>)
    /\ slider_y_marker' = set_data(<<>>, <<>>)
    /\ trace_point' = set_data(<<>>, <<>>)
    /\ trail_line' = set_data(<<>>, <<>>)
    /\ trail_x' = <<>>
    /\ trail_y' = <<>>
    /\ UNCHANGED params

init ==
    /\ link1' = set_data(<<>>, <<>>)
    /\ link2' = set_data(<<>>, <<>>)
    /\ slider_x_marker' = set_data(<<>>, <<>>)
    /\ slider_y_marker' = set_data(<<>>, <<>>)
    /\ trace_point' = set_data(<<>>, <<>>)
    /\ trail_line' = set_data(<<>>, <<>>)
    /\ UNCHANGED <<params, trail>>

\* Variant: the trail is handed to the renderer before the frame's point is
\* appended.
update_stale(frame) ==
    LET t == t_values[frame + 1]
        c1 == crank_pin_x(t)
        c2 == crank_pin_y(t)
        p == sliders_intersection(t)
        x == p[1]
        y == p[2]
    IN /\ link1' = set_data(<<0, c1[1]>>, <<0, c1[2]>>)
       /\ link2' = set_data(<<0, c2[1]>>, <<0, c2[2]>>)
       /\ slider_x_marker' = set_data(<<x>>, <<0>>)
       /\ slider_y_marker' = set_data(<<0>>, <<y>>)
       /\ trace_point' = set_data(<<x>>, <<y>>)
       /\ trail_line' = set_data(trail_x, trail_y)
       /\ trail_x' = Evict(append(trail_x, x))
       /\ trail_y' = Evict(append(trail_y, y))
       /\ UNCHANGED params

update(frame) ==
    LET t == t_values[frame + 1]
        c1 == crank_pin_x(t)
        c2 == crank_pin_y(t)
        p == sliders_intersection(t)
        x == p[1]
        y == p[2]
    IN /\ link1' = set_data(<<0, c1[1]>>, <<0, c1[2]>>)
       /\ link2' = set_data(<<0, c2[1]>>, <<0, c2[2]>>)
       /\ slider_x_marker' = set_data(<<x>>, <<0>>)
       /\ slider_y_marker' = set_data(<<0>>, <<y>>)
       /\ trace_point' = set_data(<<x>>, <<y>>)
       /\ trail_x' = Evict(append(trail_x, x))
       /\ trail_y' = Evict(append(trail_y, y))
       /\ trail_line' = set_data(trail_x', trail_y')
       /\ UNCHANGED params

\* ----------------------------------------------------------- configuration
\* The module-level assignments of the script for a given T, fps, trail_max.
Setup(T0, fps0, trail_max0) ==
    /\ Rx = 3 * Scale
    /\ Ry = 2 * Scale
    /\ omega_x = Scale
    /\ phi_x = 0
    /\ phi = (Scale + sqrt(5 * Scale)) \div 2
    /\ omega_y = Mul(phi, omega_x)
    /\ phi_y = 0
    /\ T = T0
    /\ fps = fps0
    /\ N = T0 * fps0
    /\ trail_max = trail_max0
    /\ trail_x = <<>>
    /\ trail_y = <<>>
    /\ t_values = linspace(0, T0, T0 * fps0)
    /\ link1 = set_data(<<>>, <<>>)
    /\ link2 = set_data(<<>>, <<>>)
    /\ slider_x_marker = set_data(<<>>, <<>>)
    /\ slider_y_marker = set_data(<<>>, <<>>)
    /\ trace_point = set_data(<<>>, <<>>)
    /\ trail_line = set_data(<<>>, <<>>)
    /\ started = FALSE
    /\ frame_seq = 0
    /\ calls = 0

\* ------------------------------------------------- FuncAnimation's driving
\* First draw: init_func is called, no frame is drawn.
InitDraw ==
    /\ ~started
    /\ init
    /\ started' = TRUE
    /\ UNCHANGED <<frame_seq, calls>>

\* A timer tick with a frame left in the sequence: update(next frame).
StepFrame(limit) ==
    /\ started
    /\ frame_seq < N
    /\ calls < limit
    /\ update(frame_seq)
    /\ frame_seq' = frame_seq + 1
    /\ calls' = calls + 1
    /\ UNCHANGED started

\* A timer tick with the sequence exhausted and repeat=True: init_func is
\* called again and the frame sequence starts over.
Restart ==
    /\ started
    /\ frame_seq = N
    /\ init
    /\ frame_seq' = 0
    /\ UNCHANGED <<started, calls>>

\* ---------------------------------------------------------- specifications
Init == \E T0 \in 1..MaxT, fps0 \in 1..MaxFps, m \in 0..MaxTrail :
            Setup(T0, fps0, m)

Step == StepFrame(MaxCalls)

Next == InitDraw \/ Step \/ Restart

Spec == Init /\ [][Next]_vars

\* The script as written: T = 60, fps = 20, trail_max = 8000 (N = 1200), and
\* the same proportions at 1/200 of the size (N = 6, trail_max = 40).
InitProgram == Setup(60, 20, 8000) \/ Setup(3, 2, 40)

StepProgram == StepFrame(ProgMaxCalls)

NextProgram == InitDraw \/ StepProgram \/ Restart

SpecProgram == InitProgram /\ [][NextProgram]_vars

\* The long run: N = 10000 frames (T = 500, fps = 20), trail_max = 8000, and
\* the same proportions at 1/1000 of the size (N = 10, trail_max = 8).
InitLong == Setup(500, 20, 8000) \/ Setup(5, 2, 8)

StepLong == StepFrame(LongMaxCalls)

NextLong == InitDraw \/ StepLong \/ Restart

SpecLong == InitLong /\ [][NextLong]_vars


\* ------------------------------------------------------------------ claims
Min(a, b) == IF a < b THEN a ELSE b

NoData == <<<<>>, <<>>>>

\* The trace point appended by update call number c (counted from 0).
TracePointOfCall(c) == sliders_intersection(t_values[(c % N) + 1])

\* The time sample of the frame drawn last (defined once a frame is drawn).
LastT == t_values[frame_seq]

\* C1: after k update calls from an empty trail, the trail holds at most
\* trail_max points, and they are the last min(k, trail_max) appended points
\* in the order they were appended.
C1_TrailIsLastPoints ==
    LET L == Min(calls, trail_max)
    IN /\ Len(trail_x) <= trail_max
       /\ Len(trail_x) = L
       /\ Len(trail_y) = L
       /\ \A m \in 1..L :
             <<trail_x[m], trail_y[m]>> = TracePointOfCall(calls - L + m - 1)

\* C1 witness: points were evicted, over more than one pass of the grid.
C1_Witness ==
    /\ trail_max >= 2
    /\ calls > trail_max + 1
    /\ calls > N
    /\ Len(trail_x) = trail_max

\* C2: with trail_max = 0 the trail is empty after every update call.
C2_ZeroCapacityStaysEmpty ==
    trail_max = 0 => trail_x = <<>> /\ trail_y = <<>>

\* C2 witness: three frames drawn with trail_max = 0.
C2_Witness == trail_max = 0 /\ calls >= 3 /\ trail_x = <<>>

\* C3: N = 1200 frames (T = 60, fps = 20) with trail_max = 8000 leave a trail
\* of exactly 1200 points, entry i being the trace point of frame i, and no
\* point is evicted on the way.
C3_FirstPassKeepsAllFrames ==
    (T = 60 /\ fps = 20 /\ trail_max = 8000) =>
        /\ N = 1200
        /\ calls <= N => Len(trail_x) = calls /\ Len(trail_y) = calls
        /\ calls <= N =>
              \A i \in 1..calls :
                  <<trail_x[i], trail_y[i]>> = sliders_intersection(t_values[i])
        /\ calls = N =>
              /\ Len(trail_x) = 1200
              /\ \A i \in 1..1200 :
                    <<trail_x[i], trail_y[i]>> =
                        sliders_intersection(t_values[i])

\* C3 witness: the first pass over the 1200 frames has ended.
C3_Witness ==
    /\ T = 60 /\ fps = 20 /\ trail_max = 8000
    /\ calls = 1200
    /\ frame_seq = N
    /\ Len(trail_x) = 1200

\* C4: N = 10000 frames with trail_max = 8000 leave a trail of exactly 8000
\* points, the trace points of frames 2000..9999 in that order; in general a
\* pass of N >= trail_max frames leaves the trace points of the last trail_max
\* frames, N - trail_max .. N - 1.
C4_LongRunKeepsLastFrames ==
    /\ (N = 10000 /\ trail_max = 8000 /\ calls = N) =>
           /\ Len(trail_x) = 8000
           /\ Len(trail_y) = 8000
           /\ \A j \in 1..8000 :
                 <<trail_x[j], trail_y[j]>> =
                     sliders_intersection(t_values[2000 + j])
    /\ (N >= trail_max /\ calls = N) =>
           /\ Len(trail_x) = trail_max
           /\ Len(trail_y) = trail_max
           /\ \A j \in 1..trail_max :
                 <<trail_x[j], trail_y[j]>> =
                     sliders_intersection(t_values[N - trail_max + j])

\* C4 witness: a pass of more frames than the trail holds has ended, the
\* first fifth of its points evicted.
C4_Witness ==
    /\ calls = N
    /\ frame_seq = N
    /\ 5 * trail_max = 4 * N
    /\ Len(trail_x) = trail_max
    /\ <<trail_x[1], trail_y[1]>> = sliders_intersection(t_values[N \div 5 + 1])

\* C5: only a frame update changes the trail, by exactly one append of the
\* trace point at t_values[frame] (then the truncation); no step changes the
\* motion parameters, trail_max or the time grid.
C5_TrailWrittenOncePerFrame ==
    [][ /\ params' = params
        /\ trail' # trail => calls' = calls + 1
        /\ calls' = calls => trail' = trail
        /\ calls' = calls + 1 =>
              LET p == sliders_intersection(t_values[frame_seq + 1])
              IN /\ trail_x' = Evict(Append(trail_x, p[1]))
                 /\ trail_y' = Evict(Append(trail_y, p[2])) ]_vars

\* C5 witness: init has run again after a full pass, the trail intact.
C5_Witness ==
    /\ started
    /\ calls = N
    /\ calls >= 2
    /\ frame_seq = 0
    /\ trace_point = NoData
    /\ Len(trail_x) = calls

\* C6: for every time sample the trace point is
\* (Rx cos(omega_x t + phi_x), Ry sin(omega_y t + phi_y)), its x that of
\* crank_pin_x and its y that of crank_pin_y; and the geometry of a drawn
\* frame agrees: sliders at (x, 0) and (0, y), trace marker at (x, y), each
\* crank link from the origin to its pin.
C6_GeometryConsistent ==
    /\ \A i \in 1..N :
          LET t == t_values[i]
          IN /\ sliders_intersection(t)[1] =
                    Mul(Rx, np_cos(Angle(omega_x, t, phi_x)))
             /\ sliders_intersection(t)[2] =
                    Mul(Ry, np_sin(Angle(omega_y, t, phi_y)))
             /\ sliders_intersection(t)[1] = crank_pin_x(t)[1]
             /\ sliders_intersection(t)[2] = crank_pin_y(t)[2]
    /\ trace_point # NoData =>
          LET x == crank_pin_x(LastT)[1]
              y == crank_pin_y(LastT)[2]
          IN /\ slider_x_marker = <<<<x>>, <<0>>>>
             /\ slider_y_marker = <<<<0>>, <<y>>>>
             /\ trace_point = <<<<x>>, <<y>>>>
             /\ link1 = <<<<0, crank_pin_x(LastT)[1]>>,
                          <<0, crank_pin_x(LastT)[2]>>>>
             /\ link2 = <<<<0, crank_pin_y(LastT)[1]>>,
                          <<0, crank_pin_y(LastT)[2]>>>>

\* C6 witness: a frame after the first is drawn, off both axes.
C6_Witness ==
    /\ trace_point # NoData
    /\ frame_seq >= 2
    /\ trace_point[1][1] # 0
    /\ trace_point[2][1] # 0
    /\ slider_x_marker[1][1] = trace_point[1][1]

C8_RendererSeesCurrentTrail ==
    trace_point # NoData =>
        /\ trail_line = <<trail_x, trail_y>>
        /\ trail_max >= 1 =>
              /\ trail_line[1] # <<>>
              /\ trail_line[1][Len(trail_line[1])] = trace_point[1][1]
              /\ trail_line[2][Len(trail_line[2])] = trace_point[2][1]

\* C8 witness: a frame drawn after points were evicted.
C8_Witness ==
    /\ trace_point # NoData
    /\ trail_max >= 2
    /\ calls > trail_max
    /\ trail_line[1] = trail_x
    /\ Len(trail_x) = trail_max

\* C9: the time grid steps by 1/fps: t_values[i] = i / fps for every frame
\* index i in [0, N).
C9_GridStepIsOneOverFps ==
    \A i \in 0..(N - 1) :
        t_values[i + 1][1] * fps = i * t_values[i + 1][2]

\* C10: frames are delivered in order 0..N-1 and then again from 0, the
\* trail is not cleared on restart, so its length never decreases and stays
\* at trail_max once there; a full trail holds points of more than one pass.
C10_TrailSurvivesRestart ==
    /\ [][ /\ calls' = calls + 1 =>
                 frame_seq = calls % N /\ frame_seq' = frame_seq + 1
           /\ frame_seq' # frame_seq =>
                 \/ frame_seq' = frame_seq + 1 /\ frame_seq < N
                 \/ frame_seq' = 0 /\ frame_seq = N /\ trail' = trail
           /\ Len(trail_x') >= Len(trail_x)
           /\ Len(trail_x) = trail_max => Len(trail_x') = trail_max ]_vars
    /\ [](Len(trail_x) = trail_max =>
             \E j \in 1..(Len(trail_x) - 1) :
                 /\ <<trail_x[j], trail_y[j]>> =
                        sliders_intersection(t_values[N])
                 /\ <<trail_x[j + 1], trail_y[j + 1]>> =
                        sliders_intersection(t_values[1]))

\* C10 witness: a restart with the trail full.
C10_Witness ==
    /\ started
    /\ Len(trail_x) = trail_max
    /\ calls > trail_max
    /\ frame_seq = 0
    /\ trace_point = NoData

=============================================================================
